---- MODULE Spec2Model ----
(***************************************************************************)
(* EAGL: the guest graphics-context layer of touchHLE                      *)
(* (src/src/frameworks/opengles/eagl.rs).                                  *)
(*                                                                         *)
(* Every Objective-C method of EAGLContext is one action.  A method body   *)
(* is a function from an environment record `e` (the fields of `env` the   *)
(* method reads and writes, plus the calls it has issued so far) to the    *)
(* environment it leaves behind; the action commits that record.           *)
(***************************************************************************)
EXTENDS Integers, Sequences, FiniteSets, TLC

VARIABLES
    alive,                          \* objc: lifecycle of each EAGLContext object
    guest_owns,                     \* objc: the guest still holds its +alloc reference
    refcount,                       \* objc: reference count of each object
    gles_ctx,                       \* EAGLContextHostObject.gles_ctx
    renderbuffer_drawable_bindings, \* EAGLContextHostObject.renderbuffer_drawable_bindings
    current_ctxs,                   \* opengles state: current_ctx_for_thread
    current_ctx_thread,             \* opengles state: current_ctx_thread
    app_gl_ctx_no_longer_current,   \* window: flag read by is_app_gl_ctx_no_longer_current
    native_current,                 \* window: the GL context that is really current
    gl,                             \* driver: OpenGL ES state of each native context
    fullscreen_layer,               \* core animation: find_fullscreen_eagl_layer
    layer_pixels,                   \* core animation: pixels presented to each layer
    window_size,                    \* window: size_unrotated_scalehacked
    lastOp,                         \* history: the method that ran last and what it did
    last_bind,                      \* history: the drawable of the latest bind of each name
    aborted,                        \* the process has panicked
    ns_threads,                     \* ns_thread.rs: NSThreadHostObject of each NSThread
    ns_refcount,                    \* objc: reference count of NSThreads and their operands
    ns_owned,                       \* objc: the guest holds a reference of its own
    ns_taken,                       \* history: objects retained when each thread was launched
    ns_dropped                      \* history: objects released when its invocation finished

vars == <<alive, guest_owns, refcount, gles_ctx, renderbuffer_drawable_bindings,
          current_ctxs, current_ctx_thread, app_gl_ctx_no_longer_current,
          native_current, gl, fullscreen_layer, layer_pixels, window_size,
          lastOp, last_bind, aborted,
          ns_threads, ns_refcount, ns_owned, ns_taken, ns_dropped>>

\* The state of the EAGL layer but for the panic flag, and that of NSThread.
eagl_vars == <<alive, guest_owns, refcount, gles_ctx, renderbuffer_drawable_bindings,
               current_ctxs, current_ctx_thread, app_gl_ctx_no_longer_current,
               native_current, gl, fullscreen_layer, layer_pixels, window_size,
               last_bind>>

ns_vars == <<ns_threads, ns_refcount, ns_owned, ns_taken, ns_dropped>>

----------------------------------------------------------------------------
(* Identities *)

Threads == {"t1", "t2"}
Ctxs == {"c1", "c2"}
Surfs == {"A", "B"}
nil == "nil"
None == "None"
Internal == "internal"
NativeCtxs == Ctxs \cup {Internal}

\* Bounds of the model.
MaxStackDepth == 2    \* depth of each matrix stack in the driver
MaxDirty == 2         \* number of GL slots the guest has moved away from their defaults
UsizeBits == 24       \* width of the host's usize, scaled down with the sizes below

\* Object names (renderbuffers, framebuffers, textures, buffers) the guest uses.
Names == {0, 1}

kEAGLRenderingAPIOpenGLES1 == 1
kEAGLRenderingAPIOpenGLES2 == 2

\* gles1_on_gl2::ARRAYS and gles1_on_gl2::CAPABILITIES
ARRAYS == <<"VERTEX_ARRAY", "COLOR_ARRAY", "TEXTURE_COORD_ARRAY">>
CAPABILITIES == <<"TEXTURE_2D", "BLEND", "LIGHTING">>
MODES == <<"MODELVIEW", "PROJECTION", "TEXTURE">>

SeqRange(s) == {s[i] : i \in 1..Len(s)}

----------------------------------------------------------------------------
(* The driver: OpenGL ES 1.1 state of one native context *)

NO_ERROR == "NO_ERROR"

PointerInit == [binding |-> 0, size |-> 4, type |-> "FLOAT", stride |-> 0, ptr |-> "null"]

GLInit ==
    [rb |-> 0, fb |-> 0, tex |-> 0,
     arrays |-> {}, caps |-> {},
     mode |-> "MODELVIEW",
     stacks |-> [m \in SeqRange(MODES) |-> <<"I">>],
     color |-> "white", viewport |-> "guest0", clear |-> "transparent",
     bsrc |-> "ONE", bdst |-> "ZERO",
     abuf |-> 0, vap |-> PointerInit, tcap |-> PointerInit,
     fbs |-> {}, texs |-> {},
     rbsize |-> [r \in Names |-> <<0, 0>>],
     err |-> NO_ERROR]

\* Statements run one after the other: each intermediate environment is computed
\* before the next one is.
InOrder(steps) == Len(steps) > 0

\* A panic: the method stops where it is.
Panic(e) == [e EXCEPT !.abort = TRUE, !.result = "abort"]

\* The state the calls of `e` act on: that of the context that is really current.
G(e) == e.gl[e.native]

\* A call into the driver: logged, and issued on whatever context is current.
Call(e, name) ==
    [e EXCEPT !.log = Append(@, name), !.gpuOn = @ \cup {e.native}]

Upd(e, name, g) == Call([e EXCEPT !.gl[e.native] = g], name)

RaiseError(g, code) == IF g.err = NO_ERROR THEN [g EXCEPT !.err = code] ELSE g

FreshName(used) == CHOOSE n \in 1..(Cardinality(used) + 1) : n \notin used

BindRenderbufferOES(e, name) == Upd(e, "BindRenderbufferOES", [G(e) EXCEPT !.rb = name])

RenderbufferStorageOES(e, size) ==
    Upd(e, "RenderbufferStorageOES",
        IF G(e).rb = 0 THEN RaiseError(G(e), "INVALID_OPERATION")
        ELSE [G(e) EXCEPT !.rbsize[G(e).rb] = size])

GenFramebuffersOES(e) == Call(e, "GenFramebuffersOES")

BindFramebufferOES(e, name) ==
    Upd(e, "BindFramebufferOES",
        [G(e) EXCEPT !.fb = name, !.fbs = IF name = 0 THEN @ ELSE @ \cup {name}])

FramebufferRenderbufferOES(e, name) == Call(e, "FramebufferRenderbufferOES")

DeleteFramebuffersOES(e, name) ==
    Upd(e, "DeleteFramebuffersOES",
        [G(e) EXCEPT !.fbs = @ \ {name}, !.fb = IF @ = name THEN 0 ELSE @])

GenTextures(e) == Call(e, "GenTextures")

BindTexture(e, name) ==
    Upd(e, "BindTexture",
        [G(e) EXCEPT !.tex = name, !.texs = IF name = 0 THEN @ ELSE @ \cup {name}])

CopyTexImage2D(e, size) == Call(e, "CopyTexImage2D")

TexParameteri(e) == Call(e, "TexParameteri")

DeleteTextures(e, name) ==
    Upd(e, "DeleteTextures",
        [G(e) EXCEPT !.texs = @ \ {name}, !.tex = IF @ = name THEN 0 ELSE @])

ReadPixels(e, size) == Call(e, "ReadPixels")

EnableClientState(e, name) ==
    Upd(e, "EnableClientState", [G(e) EXCEPT !.arrays = @ \cup {name}])

DisableClientState(e, name) ==
    Upd(e, "DisableClientState", [G(e) EXCEPT !.arrays = @ \ {name}])

Enable(e, name) == Upd(e, "Enable", [G(e) EXCEPT !.caps = @ \cup {name}])

Disable(e, name) == Upd(e, "Disable", [G(e) EXCEPT !.caps = @ \ {name}])

MatrixMode(e, mode) == Upd(e, "MatrixMode", [G(e) EXCEPT !.mode = mode])

PushMatrix(e) ==
    LET g == G(e)
        s == g.stacks[g.mode]
    IN Upd(e, "PushMatrix",
           IF Len(s) >= MaxStackDepth THEN RaiseError(g, "STACK_OVERFLOW")
           ELSE [g EXCEPT !.stacks[g.mode] = Append(s, s[Len(s)])])

PopMatrix(e) ==
    LET g == G(e)
        s == g.stacks[g.mode]
    IN Upd(e, "PopMatrix",
           IF Len(s) <= 1 THEN RaiseError(g, "STACK_UNDERFLOW")
           ELSE [g EXCEPT !.stacks[g.mode] = SubSeq(s, 1, Len(s) - 1)])

LoadMatrix(e, mat) ==
    LET g == G(e)
    IN Upd(e, "LoadMatrix",
           [g EXCEPT !.stacks[g.mode] = [@ EXCEPT ![Len(@)] = mat]])

LoadIdentity(e) == LoadMatrix(e, "I")

Color4f(e, c) == Upd(e, "Color4f", [G(e) EXCEPT !.color = c])

Viewport(e, v) == Upd(e, "Viewport", [G(e) EXCEPT !.viewport = v])

ClearColor(e, c) == Upd(e, "ClearColor", [G(e) EXCEPT !.clear = c])

BindBuffer(e, name) == Upd(e, "BindBuffer", [G(e) EXCEPT !.abuf = name])

\* The Pointer functions latch the buffer bound to GL_ARRAY_BUFFER.
VertexPointer(e, size, type, stride, ptr) ==
    Upd(e, "VertexPointer",
        [G(e) EXCEPT !.vap = [binding |-> G(e).abuf, size |-> size, type |-> type,
                               stride |-> stride, ptr |-> ptr]])

TexCoordPointer(e, size, type, stride, ptr) ==
    Upd(e, "TexCoordPointer",
        [G(e) EXCEPT !.tcap = [binding |-> G(e).abuf, size |-> size, type |-> type,
                                stride |-> stride, ptr |-> ptr]])

BlendFunc(e, s, d) == Upd(e, "BlendFunc", [G(e) EXCEPT !.bsrc = s, !.bdst = d])

DrawArrays(e) == Call(e, "DrawArrays")

Clear(e) == Call(e, "Clear")

\* glGetError returns the flag and clears it.
\* errs keeps, for each read of the flag, whether it was set.
GetError(e) ==
    Upd([e EXCEPT !.errs = Append(@, G(e).err # NO_ERROR)], "GetError",
        [G(e) EXCEPT !.err = NO_ERROR])

----------------------------------------------------------------------------
(* eagl.rs: the state-query helpers *)

get_int(e, pname) == Call(e, "GetIntegerv:" \o pname)

get_ints(e, pname) == Call(e, "GetIntegerv:" \o pname)

get_floats(e, pname) == Call(e, "GetFloatv:" \o pname)

get_ptr(e, pname) == Call(e, "GetPointerv:" \o pname)

GetBooleanv(e, pname) == Call(e, "GetBooleanv:" \o pname)

\* Two GetRenderbufferParameterivOES queries on the bound renderbuffer.
get_renderbuffer_size(e) ==
    LET q(x, what) ==
            Upd(x, "GetRenderbufferParameterivOES:" \o what,
                IF G(x).rb = 0 THEN RaiseError(G(x), "INVALID_OPERATION") ELSE G(x))
    IN q(q(e, "WIDTH"), "HEIGHT")

renderbuffer_size(e) == G(e).rbsize[G(e).rb]

\* Mutant: the window is never swapped.
swap_window_Never(e) == e

swap_window(e) ==
    [e EXCEPT !.log = Append(@, "swap_window"), !.swapFb = Append(@, G(e).fb)]

----------------------------------------------------------------------------
(* gles::present::present_frame: draws the quad and the virtual cursor *)

present_frame(e, cursor) ==
    LET e1 == Clear(ClearColor(Viewport(e, "window"), "opaque"))
        e2 == BindBuffer(e1, 0)
        e3 == VertexPointer(EnableClientState(e2, "VERTEX_ARRAY"), 2, "FLOAT", 0, "quad")
        e4 == TexCoordPointer(EnableClientState(e3, "TEXTURE_COORD_ARRAY"),
                              2, "FLOAT", 0, "quadTex")
        e5 == LoadMatrix(MatrixMode(e4, "TEXTURE"), "rotation")
        e6 == DrawArrays(Enable(e5, "TEXTURE_2D"))
        c1 == Disable(DisableClientState(e6, "TEXTURE_COORD_ARRAY"), "TEXTURE_2D")
        c2 == BlendFunc(Enable(c1, "BLEND"), "ONE", "ONE_MINUS_SRC_ALPHA")
        c3 == Color4f(c2, "cursor")
        c4 == LoadMatrix(MatrixMode(c3, "MODELVIEW"), "cursor")
        c5 == DrawArrays(VertexPointer(c4, 2, "FLOAT", 0, "cursorQuad"))
    IN IF cursor THEN c5 ELSE e6

----------------------------------------------------------------------------
(* eagl.rs: read_renderbuffer *)

usize_MAX == 2 ^ UsizeBits - 1

\* usize::checked_mul, with -1 for None.
checked_mul(a, b) ==
    IF a < 0 \/ b < 0 THEN -1
    ELSE IF b # 0 /\ a > usize_MAX \div b THEN -1
    ELSE a * b

\* Mutant: the product wraps around instead of being checked.
pixel_buffer_size_Wrapping(width, height) ==
    (((width * height) % (usize_MAX + 1)) * 4) % (usize_MAX + 1)

\* Lines 341-345: width * height * 4, or -1 where an unwrap panics.
pixel_buffer_size(width, height) == checked_mul(checked_mul(width, height), 4)

\* Mutant: the temporary framebuffer is never deleted.
CleanUpFramebuffer_Skipped(e, src_framebuffer) == e

\* "Clean up the framebuffer object since we no longer need it."
CleanUpFramebuffer(e, src_framebuffer) == DeleteFramebuffersOES(e, src_framebuffer)

read_renderbuffer(e) ==
    LET e1 == get_renderbuffer_size(get_int(e, "RENDERBUFFER_BINDING_OES"))
        renderbuffer == G(e).rb
        width == renderbuffer_size(e)[1]
        height == renderbuffer_size(e)[2]
        e2 == get_int(e1, "FRAMEBUFFER_BINDING_OES")
        old_framebuffer == G(e1).fb
        src_framebuffer == FreshName(G(e2).fbs)
        e3 == FramebufferRenderbufferOES(
                  BindFramebufferOES(GenFramebuffersOES(e2), src_framebuffer),
                  renderbuffer)
        size == pixel_buffer_size(width, height)
        e4 == ReadPixels(e3, <<width, height>>)
        e5 == [e4 EXCEPT !.pixels = [w |-> width, h |-> height, len |-> size]]
        e6 == CleanUpFramebuffer(e5, src_framebuffer)
    IN IF size < 0 THEN Panic(e3) ELSE BindFramebufferOES(e6, old_framebuffer)

----------------------------------------------------------------------------
(* eagl.rs: present_renderbuffer *)

RECURSIVE BackupArrays(_, _)
BackupArrays(e, i) ==
    IF i > Len(ARRAYS) THEN e
    ELSE BackupArrays(DisableClientState(GetBooleanv(e, ARRAYS[i]), ARRAYS[i]), i + 1)

RECURSIVE BackupCapabilities(_, _)
BackupCapabilities(e, i) ==
    IF i > Len(CAPABILITIES) THEN e
    ELSE BackupCapabilities(Disable(GetBooleanv(e, CAPABILITIES[i]), CAPABILITIES[i]),
                            i + 1)

RECURSIVE BackupMatrices(_, _)
BackupMatrices(e, i) ==
    IF i > Len(MODES) THEN e
    ELSE BackupMatrices(LoadIdentity(PushMatrix(MatrixMode(e, MODES[i]))), i + 1)

RECURSIVE RestoreArrays(_, _, _)
RestoreArrays(e, old_arrays, i) ==
    IF i > Len(ARRAYS) THEN e
    ELSE RestoreArrays(IF ARRAYS[i] \in old_arrays
                       THEN EnableClientState(e, ARRAYS[i])
                       ELSE DisableClientState(e, ARRAYS[i]),
                       old_arrays, i + 1)

RECURSIVE RestoreCapabilities(_, _, _)
RestoreCapabilities(e, old_capabilities, i) ==
    IF i > Len(CAPABILITIES) THEN e
    ELSE RestoreCapabilities(IF CAPABILITIES[i] \in old_capabilities
                             THEN Enable(e, CAPABILITIES[i])
                             ELSE Disable(e, CAPABILITIES[i]),
                             old_capabilities, i + 1)

RECURSIVE PopMatrices(_, _)
PopMatrices(e, i) ==
    IF i > Len(MODES) THEN e
    ELSE PopMatrices(PopMatrix(MatrixMode(e, MODES[i])), i + 1)

\* Lines 517-521: the matrix mode is set first, then the three stacks are popped.
RestoreMatrices(e, old_matrix_mode) == PopMatrices(MatrixMode(e, old_matrix_mode), 1)

RestoreColor(e, old) == Color4f(e, old.color)

RestoreViewport(e, old) == Viewport(e, old.viewport)

RestoreClearColor(e, old) == ClearColor(e, old.clear)

RestorePointers(e, old) ==
    LET e1 == VertexPointer(BindBuffer(e, old.vap.binding),
                            old.vap.size, old.vap.type, old.vap.stride, old.vap.ptr)
        e2 == TexCoordPointer(BindBuffer(e1, old.tcap.binding),
                              old.tcap.size, old.tcap.type, old.tcap.stride, old.tcap.ptr)
    IN BindBuffer(e2, old.abuf)

\* Mutant: the blend factors are backed up but never put back.
RestoreBlend_Skipped(e, old) == e

RestoreBlend(e, old) == BlendFunc(e, old.bsrc, old.bdst)

\* Mutant: only the texture binding is put back.
RestoreBindings_TextureOnly(e, old_texture_2d, old_framebuffer) ==
    BindTexture(e, old_texture_2d)

RestoreBindings(e, old_texture_2d, old_framebuffer) ==
    BindFramebufferOES(BindTexture(e, old_texture_2d), old_framebuffer)

\* Mutant: the window is swapped after the guest's bindings are back.
RestoreBindingsThenSwap(e, old_texture_2d, old_framebuffer) ==
    swap_window(BindFramebufferOES(BindTexture(e, old_texture_2d), old_framebuffer))

\* Lines 554-560: swap the window, then restore the other bindings.
SwapThenRestoreBindings(e, old_texture_2d, old_framebuffer) ==
    RestoreBindings(swap_window(e), old_texture_2d, old_framebuffer)

\* Mutant: the texture of the frame is never deleted.
CleanUpTexture_Skipped(e, texture) == e

\* "Clean up the texture"
CleanUpTexture(e, texture) == DeleteTextures(e, texture)

\* Mutant: the error flag is read and dropped.
check_error_Ignored(e) == GetError(e)

\* Line 562: the error flag is read once; anything but NO_ERROR is a panic.
check_error(e) ==
    LET err == G(e).err
    IN IF err # NO_ERROR THEN Panic(GetError(e)) ELSE GetError(e)

\* The queries of lines 463-486, in that order.
BackupQueries(e) ==
    LET e1 == Color4f(get_floats(e, "CURRENT_COLOR"), "white")
        e2 == get_floats(get_ints(e1, "VIEWPORT"), "COLOR_CLEAR_VALUE")
        e3 == get_int(e2, "ARRAY_BUFFER_BINDING")
        e4 == get_ptr(get_int(get_int(get_int(get_int(e3,
                  "VERTEX_ARRAY_BUFFER_BINDING"), "VERTEX_ARRAY_SIZE"),
                  "VERTEX_ARRAY_TYPE"), "VERTEX_ARRAY_STRIDE"), "VERTEX_ARRAY_POINTER")
        e5 == get_ptr(get_int(get_int(get_int(get_int(e4,
                  "TEXTURE_COORD_ARRAY_BUFFER_BINDING"), "TEXTURE_COORD_ARRAY_SIZE"),
                  "TEXTURE_COORD_ARRAY_TYPE"), "TEXTURE_COORD_ARRAY_STRIDE"),
                  "TEXTURE_COORD_ARRAY_POINTER")
    IN get_int(get_int(e5, "BLEND_SRC"), "BLEND_DST")

present_renderbuffer(e, cursor) ==
    LET e1 == get_renderbuffer_size(get_int(e, "RENDERBUFFER_BINDING_OES"))
        renderbuffer == G(e).rb
        size == renderbuffer_size(e)
        e2 == get_int(get_int(e1, "FRAMEBUFFER_BINDING_OES"), "TEXTURE_BINDING_2D")
        old_framebuffer == G(e1).fb
        old_texture_2d == G(e1).tex
        src_framebuffer == FreshName(G(e2).fbs)
        e3 == FramebufferRenderbufferOES(
                  BindFramebufferOES(GenFramebuffersOES(e2), src_framebuffer),
                  renderbuffer)
        texture == FreshName(G(e3).texs)
        e4 == TexParameteri(CopyTexImage2D(BindTexture(GenTextures(e3), texture), size))
        e5 == CleanUpFramebuffer(e4, src_framebuffer)
        old_arrays == G(e5).arrays
        e6 == BackupArrays(e5, 1)
        old_capabilities == G(e6).caps
        e7 == BackupCapabilities(e6, 1)
        e8 == get_int(e7, "MATRIX_MODE")
        old_matrix_mode == G(e7).mode
        e9 == BackupMatrices(e8, 1)
        \* color, viewport, clear color, array buffer, pointers, blend factors
        old == G(e9)
        e10 == BackupQueries(e9)
        e11 == CleanUpTexture(present_frame(e10, cursor), texture)
        e12 == RestoreCapabilities(RestoreArrays(e11, old_arrays, 1), old_capabilities, 1)
        e13 == RestoreMatrices(e12, old_matrix_mode)
        e14 == RestoreClearColor(RestoreViewport(RestoreColor(e13, old), old), old)
        e15 == RestoreBlend(RestorePointers(e14, old), old)
        e16 == SwapThenRestoreBindings(e15, old_texture_2d, old_framebuffer)
    IN IF InOrder(<<e1, e2, e3, e4, e5, e6, e7, e8, e9, e10, e11, e12, e13, e14,
                    e15, e16>>)
       THEN check_error(e16)
       ELSE e16

----------------------------------------------------------------------------
(* The environment a method runs in *)

\* A layer nothing has been presented to yet (len -1 tells it from a frame of
\* zero size).
NoPixels == [w |-> 0, h |-> 0, len |-> -1]

Env(t) ==
    [thread |-> t,
     alive |-> alive, guest_owns |-> guest_owns, refcount |-> refcount,
     gles_ctx |-> gles_ctx, bindings |-> renderbuffer_drawable_bindings,
     current_ctxs |-> current_ctxs, current_ctx_thread |-> current_ctx_thread,
     flag |-> app_gl_ctx_no_longer_current, native |-> native_current, gl |-> gl,
     layer_pixels |-> layer_pixels,
     \* what the method has done so far
     log |-> <<>>, gpuOn |-> {}, swapFb |-> <<>>, errs |-> <<>>, made |-> <<>>,
     retained |-> <<>>, released |-> <<>>, pixels |-> NoPixels,
     result |-> None, path |-> None, key |-> -1, old |-> nil,
     abort |-> FALSE]

Return(e, value) == IF e.abort THEN e ELSE [e EXCEPT !.result = value]

----------------------------------------------------------------------------
(* window: the native context *)

make_current(e, n) ==
    [e EXCEPT !.native = n, !.made = Append(@, n), !.log = Append(@, "make_current")]

\* Returns the flag and clears it.
is_app_gl_ctx_no_longer_current(e) == [e EXCEPT !.flag = FALSE]

----------------------------------------------------------------------------
(* objc: retain, release, and EAGLContext dealloc (eagl.rs 128-135) *)

retain(e, o) ==
    IF o = nil THEN e
    ELSE [e EXCEPT !.refcount[o] = @ + 1, !.retained = Append(@, o)]

\* Releasing a drawable: the layers are owned elsewhere and outlive the contexts.
release_drawable(e, o) ==
    [e EXCEPT !.refcount[o] = @ - 1, !.released = Append(@, o)]

\* Mutant: the loop over the taken bindings releases nothing.
release_each_Nothing(e, bs) == e

RECURSIVE release_each(_, _)
release_each(e, bs) ==
    IF bs = {} THEN e
    ELSE LET b == CHOOSE x \in bs : TRUE
         IN release_each(release_drawable(e, b[2]), bs \ {b})

\* Mutant: the table is iterated in place instead of being taken.
take_bindings_InPlace(e, this) == e

\* std::mem::take: the table is left empty.
take_bindings(e, this) == [e EXCEPT !.bindings[this] = {}]

\* Dropping the host object drops its gles_ctx: the native context is destroyed.
dealloc_object(e, this) ==
    [e EXCEPT !.alive[this] = "dead",
              !.gles_ctx[this] = None,
              !.gl[this] = GLInit,
              !.native = IF @ = this THEN None ELSE @]

dealloc(e, this) ==
    LET bindings == e.bindings[this]
        e1 == take_bindings(e, this)
        e2 == release_each(e1, bindings)
    IN dealloc_object(e2, this)

release(e, o) ==
    IF o = nil THEN e
    ELSE LET e1 == [e EXCEPT !.refcount[o] = @ - 1, !.released = Append(@, o)]
         IN IF o \in Ctxs /\ e1.refcount[o] = 0 THEN dealloc(e1, o) ELSE e1

----------------------------------------------------------------------------
(* opengles: sync_context *)

sync_context(e) ==
    LET current_ctx == e.current_ctxs[e.thread]
        flag == e.flag
        e1 == is_app_gl_ctx_no_longer_current(e)
    IN IF current_ctx = nil THEN Panic(e)
       ELSE IF e.gles_ctx[current_ctx] = None THEN Panic(e)
       ELSE IF flag \/ e1.current_ctx_thread # e.thread
            THEN [make_current(e1, e.gles_ctx[current_ctx])
                     EXCEPT !.current_ctx_thread = e.thread]
            ELSE e1

----------------------------------------------------------------------------
(* EAGLContext: the methods *)

\* + alloc
alloc_body(e, this) ==
    [e EXCEPT !.alive[this] = "live", !.guest_owns[this] = TRUE,
              !.refcount[this] = 1, !.gles_ctx[this] = None,
              !.bindings[this] = {}, !.result = this]

\* + setCurrentContext:
\* Mutant: the thread's previous entry is left in the registry.
setCurrentContext_clear_KeepsEntry(e) == e

\* Mutant: the context that was current is released twice.
setCurrentContext_clear_ReleasesTwice(e) ==
    LET old_ctx == e.current_ctxs[e.thread]
    IN IF old_ctx # nil
       THEN [release(release([e EXCEPT !.current_ctxs[e.thread] = nil], old_ctx), old_ctx)
                EXCEPT !.current_ctx_thread = None]
       ELSE e

setCurrentContext_clear(e) ==
    LET old_ctx == e.current_ctxs[e.thread]
    IN IF old_ctx # nil
       THEN [release([e EXCEPT !.current_ctxs[e.thread] = nil], old_ctx)
                EXCEPT !.current_ctx_thread = None]
       ELSE e

\* Mutant: only the registry is updated; the native switch is left to sync_context.
setCurrentContext_set_Lazy(e, context) ==
    IF context = nil THEN e ELSE [e EXCEPT !.current_ctxs[e.thread] = context]

setCurrentContext_set(e, context) ==
    IF context = nil THEN e
    ELSE IF e.gles_ctx[context] = None THEN Panic(e)
    ELSE [make_current(e, e.gles_ctx[context])
             EXCEPT !.current_ctxs[e.thread] = context,
                    !.current_ctx_thread = e.thread]

\* Mutant: the registry does not retain the context it records.
setCurrentContext_body_NoRetain(e, context) ==
    Return(setCurrentContext_set(
               setCurrentContext_clear(is_app_gl_ctx_no_longer_current(e)), context),
           "true")

setCurrentContext_body(e, context) ==
    LET e1 == retain(e, context)
        e2 == is_app_gl_ctx_no_longer_current(e1)
        e3 == setCurrentContext_clear(e2)
        e4 == setCurrentContext_set(e3, context)
    IN Return(e4, "true")

\* Mutant: the owner marker is not reset after the new context was made current.
initWithAPI_body_KeepsMarker(e, this, api) ==
    IF api # kEAGLRenderingAPIOpenGLES1 THEN Panic(e)
    ELSE Return([make_current(e, this) EXCEPT !.gles_ctx[this] = this], this)

\* Mutant: the API version is checked after the context was created.
initWithAPI_body_LateAssert(e, this, api) ==
    LET e1 == [make_current(e, this) EXCEPT !.current_ctx_thread = None,
                                            !.gles_ctx[this] = this]
    IN IF api # kEAGLRenderingAPIOpenGLES1 THEN Panic(e1) ELSE Return(e1, this)

\* - initWithAPI:
initWithAPI_body(e, this, api) ==
    IF api # kEAGLRenderingAPIOpenGLES1 THEN Panic(e)
    ELSE LET gles1_ctx == this       \* create_gles1_ctx: a new native context
             e1 == make_current(e, gles1_ctx)
             e2 == [e1 EXCEPT !.current_ctx_thread = None,
                              !.log = Append(@, "driver_description")]
         IN Return([e2 EXCEPT !.gles_ctx[this] = gles1_ctx], this)

\* HashMap::get and HashMap::insert
Lookup(bindings, renderbuffer) ==
    IF \E b \in bindings : b[1] = renderbuffer
    THEN (CHOOSE b \in bindings : b[1] = renderbuffer)[2]
    ELSE nil

\* Mutant: the new entry is added beside the one it should replace.
Insert_KeepsOld(bindings, renderbuffer, drawable) ==
    bindings \cup {<<renderbuffer, drawable>>}

\* Mutant: a name that already has an entry keeps the drawable it had.
Insert_KeepsFirst(bindings, renderbuffer, drawable) ==
    IF \E b \in bindings : b[1] = renderbuffer THEN bindings
    ELSE bindings \cup {<<renderbuffer, drawable>>}

Insert(bindings, renderbuffer, drawable) ==
    {b \in bindings : b[1] # renderbuffer} \cup {<<renderbuffer, drawable>>}

\* Mutant: the drawable an entry held before is not released.
bind_drawable_LeaksOld(e, this, renderbuffer, drawable) ==
    [retain(e, drawable) EXCEPT !.bindings[this] = Insert(@, renderbuffer, drawable),
                                !.key = renderbuffer,
                                !.old = Lookup(e.bindings[this], renderbuffer)]

\* - renderbufferStorage:fromDrawable: (lines 176-183)
bind_drawable(e, this, renderbuffer, drawable) ==
    LET e1 == retain(e, drawable)
        old_drawable == Lookup(e1.bindings[this], renderbuffer)
        e2 == [e1 EXCEPT !.bindings[this] = Insert(@, renderbuffer, drawable),
                         !.key = renderbuffer, !.old = old_drawable]
    IN IF old_drawable # nil THEN release(e2, old_drawable) ELSE e2

renderbufferStorage_body(e, this, drawable, size) ==
    IF drawable = nil THEN Panic(e)
    ELSE LET e1 == sync_context(e)
             e2 == get_int(RenderbufferStorageOES(e1, size), "RENDERBUFFER_BINDING_OES")
             renderbuffer == G(e2).rb
         IN IF e1.abort THEN e1
            ELSE Return(bind_drawable(e2, this, renderbuffer, drawable), "true")

\* core animation: the layer's reusable Vec, and the hand-over of the pixels
get_pixels_vec_for_presenting(e, drawable) ==
    [e EXCEPT !.log = Append(@, "get_pixels_vec_for_presenting")]

present_pixels(e, drawable) ==
    [e EXCEPT !.layer_pixels[drawable] = e.pixels, !.log = Append(@, "present_pixels")]

\* - presentRenderbuffer: the branches once the drawable is known
\* Mutant: the slow path keeps a reference to the layer it presented.
present_slow_RetainsLayer(e, drawable) ==
    retain(present_pixels(read_renderbuffer(
               sync_context(get_pixels_vec_for_presenting(e, drawable))), drawable),
           drawable)

present_slow(e, drawable) ==
    LET e1 == sync_context(get_pixels_vec_for_presenting(e, drawable))
        e2 == read_renderbuffer(e1)
    IN IF e1.abort THEN e1
       ELSE IF e2.abort THEN e2
       ELSE present_pixels(e2, drawable)

\* Mutant: the fullscreen layer is presented by reading the pixels back.
present_fast_Readback(e, cursor) == present_slow(e, e.old)

present_fast(e, cursor) ==
    LET e1 == sync_context(e)
    IN IF e1.abort THEN e1 ELSE present_renderbuffer(e1, cursor)

\* Mutant: an unbound renderbuffer is reported as presented.
present_unbound_True(e) == Return(e, "true")

\* Mutant: an unbound renderbuffer still swaps the window.
present_unbound_Swaps(e) == Return(swap_window(e), "false")

present_unbound(e) == Return(e, "false")

\* Mutant: a layer hidden behind the fullscreen layer is presented anyway.
present_skip_Presents(e) == Return(present_slow(e, e.old), "true")

present_skip(e) == Return(e, "true")

\* Mutant: without a current context the call quietly reports failure.
presentRenderbuffer_body_Silent(e, this, fullscreen, cursor) ==
    IF e.current_ctxs[e.thread] = nil THEN Return(e, "false")
    ELSE Return(sync_context(e), "true")

presentRenderbuffer_body(e, this, fullscreen, cursor) ==
    LET e1 == sync_context(e)
        e2 == get_int(e1, "RENDERBUFFER_BINDING_OES")
        renderbuffer == G(e2).rb
        drawable == Lookup(e2.bindings[this], renderbuffer)
        e3 == [e2 EXCEPT !.key = renderbuffer, !.old = drawable]
    IN IF e1.abort THEN e1
       ELSE IF drawable = nil THEN present_unbound([e3 EXCEPT !.path = "unbound"])
       ELSE IF drawable = fullscreen
            THEN Return(present_fast([e3 EXCEPT !.path = "fast"], cursor), "true")
       ELSE IF fullscreen # nil THEN present_skip([e3 EXCEPT !.path = "skip"])
       ELSE Return(present_slow([e3 EXCEPT !.path = "slow"], drawable), "true")

----------------------------------------------------------------------------
(* Guest OpenGL ES calls: routed through sync_context, then to the driver *)

StackDirt(s) == (Len(s) - 1) + Cardinality({i \in 1..Len(s) : s[i] # "I"})

ScalarSlots == {"fb", "tex", "mode", "color", "viewport", "clear", "bsrc", "bdst",
                "abuf", "vap", "tcap", "err"}

\* How far the guest has moved a context's state from the driver's defaults.
Dirty(g) ==
    Cardinality(g.arrays) + Cardinality(g.caps)
    + Cardinality({f \in ScalarSlots : g[f] # GLInit[f]})
    + StackDirt(g.stacks["MODELVIEW"]) + StackDirt(g.stacks["PROJECTION"])
    + StackDirt(g.stacks["TEXTURE"])

GuestCalls ==
    [f : {"EnableClientState", "DisableClientState"}, a : SeqRange(ARRAYS)]
    \cup [f : {"Enable", "Disable"}, a : SeqRange(CAPABILITIES)]
    \cup [f : {"MatrixMode"}, a : SeqRange(MODES)]
    \cup [f : {"PushMatrix", "PopMatrix", "GetError"}, a : {0}]
    \cup [f : {"LoadMatrix"}, a : {"I", "M"}]
    \cup [f : {"Color4f"}, a : {"white", "red"}]
    \cup [f : {"Viewport"}, a : {"guest0", "guest1"}]
    \cup [f : {"ClearColor"}, a : {"transparent", "blue"}]
    \cup [f : {"BlendFunc"}, a : {<<"ONE", "ZERO">>, <<"SRC_ALPHA", "ZERO">>,
                                  <<"ONE", "DST_ALPHA">>}]
    \cup [f : {"BindBuffer", "BindTexture", "BindFramebufferOES"}, a : Names]
    \cup [f : {"VertexPointer", "TexCoordPointer"}, a : {"null", "guestData"}]
    \cup [f : {"InvalidCall"}, a : {0}]

BindRenderbufferCalls == [f : {"BindRenderbufferOES"}, a : Names]

\* Sizes the guest gives a renderbuffer itself; the last one does not fit a
\* pixel buffer.
StorageSizes == {<<480, 320>>, <<4096, 4096>>}

RenderbufferStorageCalls == [f : {"RenderbufferStorageOES"}, a : StorageSizes]

GuestCall(e, c) ==
    CASE c.f = "BindRenderbufferOES" -> BindRenderbufferOES(e, c.a)
      [] c.f = "RenderbufferStorageOES" -> RenderbufferStorageOES(e, c.a)
      [] c.f = "EnableClientState" -> EnableClientState(e, c.a)
      [] c.f = "DisableClientState" -> DisableClientState(e, c.a)
      [] c.f = "Enable" -> Enable(e, c.a)
      [] c.f = "Disable" -> Disable(e, c.a)
      [] c.f = "MatrixMode" -> MatrixMode(e, c.a)
      [] c.f = "PushMatrix" -> PushMatrix(e)
      [] c.f = "PopMatrix" -> PopMatrix(e)
      [] c.f = "LoadMatrix" -> LoadMatrix(e, c.a)
      [] c.f = "Color4f" -> Color4f(e, c.a)
      [] c.f = "Viewport" -> Viewport(e, c.a)
      [] c.f = "ClearColor" -> ClearColor(e, c.a)
      [] c.f = "BlendFunc" -> BlendFunc(e, c.a[1], c.a[2])
      [] c.f = "BindBuffer" -> BindBuffer(e, c.a)
      [] c.f = "BindTexture" -> BindTexture(e, c.a)
      [] c.f = "BindFramebufferOES" -> BindFramebufferOES(e, c.a)
      [] c.f = "VertexPointer" -> VertexPointer(e, 4, "FLOAT", 0, c.a)
      [] c.f = "TexCoordPointer" -> TexCoordPointer(e, 4, "FLOAT", 0, c.a)
      [] c.f = "GetError" -> GetError(e)
      [] c.f = "InvalidCall" -> Upd(e, "InvalidCall", RaiseError(G(e), "INVALID_ENUM"))

guest_gl_body(e, c) ==
    LET e1 == sync_context(e)
    IN IF e1.abort THEN e1 ELSE Return(GuestCall(e1, c), None)

----------------------------------------------------------------------------
(* Actions *)

NoOp(name, t) ==
    [op |-> name, thread |-> t, this |-> nil, arg |-> nil, result |-> None,
     path |-> None, key |-> -1, old |-> nil, log |-> <<>>, gpuOn |-> {},
     swapFb |-> <<>>, errs |-> <<>>, made |-> <<>>, retained |-> <<>>,
     released |-> <<>>]

Commit(e, op, this, arg) ==
    /\ alive' = e.alive
    /\ guest_owns' = e.guest_owns
    /\ refcount' = e.refcount
    /\ gles_ctx' = e.gles_ctx
    /\ renderbuffer_drawable_bindings' = e.bindings
    /\ current_ctxs' = e.current_ctxs
    /\ current_ctx_thread' = e.current_ctx_thread
    /\ app_gl_ctx_no_longer_current' = e.flag
    /\ native_current' = e.native
    /\ gl' = e.gl
    /\ layer_pixels' = e.layer_pixels
    /\ aborted' = e.abort
    /\ lastOp' = [op |-> op, thread |-> e.thread, this |-> this, arg |-> arg,
                  result |-> e.result, path |-> e.path, key |-> e.key, old |-> e.old,
                  log |-> e.log, gpuOn |-> e.gpuOn, swapFb |-> e.swapFb,
                  errs |-> IF op = "presentRenderbuffer" THEN e.errs ELSE <<>>,
                  made |-> e.made, retained |-> e.retained, released |-> e.released]
    /\ last_bind' = IF op = "renderbufferStorage" /\ e.result = "true"
                    THEN [last_bind EXCEPT ![this][e.key] = arg]
                    ELSE last_bind
    /\ UNCHANGED <<fullscreen_layer, window_size>>
    /\ UNCHANGED ns_vars

----------------------------------------------------------------------------
(* ns_thread.rs: NSThread *)

NSThreads == {"th1", "th2"}

\* The objects the guest passes as target and as argument.
Operands == {"T", "O"}

NSObjects == NSThreads \cup Operands

NoThread == [state |-> "free", target |-> nil, object |-> nil]

InitThreads ==
    /\ ns_threads = [th \in NSThreads |-> NoThread]
    /\ ns_refcount = [o \in NSObjects |-> IF o \in Operands THEN 1 ELSE 0]
    /\ ns_owned = [o \in NSObjects |-> o \in Operands]
    /\ ns_taken = [th \in NSThreads |-> <<>>]
    /\ ns_dropped = [th \in NSThreads |-> <<>>]

\* What a method of NSThread works on: the counts, the objects it has retained
\* and released so far, and whether it has panicked.
NSEnv == [rc |-> ns_refcount, taken |-> <<>>, dropped |-> <<>>, abort |-> FALSE]

\* objc::retain; nil is ignored.
ns_retain(x, o) ==
    IF o = nil \/ x.abort THEN x
    ELSE [x EXCEPT !.rc[o] = @ + 1, !.taken = Append(@, o)]

\* objc::release; nil is ignored, an object that is no longer there is a panic,
\* and the object is deallocated when its count reaches zero.
ns_release(x, o) ==
    IF o = nil \/ x.abort THEN x
    ELSE IF x.rc[o] = 0 THEN [x EXCEPT !.abort = TRUE]
    ELSE [x EXCEPT !.rc[o] = @ - 1, !.dropped = Append(@, o)]

\* + allocWithZone: sent by the guest, which owns the new object.
allocWithZone(th) ==
    /\ ~aborted
    /\ ns_threads[th].state = "free"
    /\ ns_threads' = [ns_threads EXCEPT ![th] = [NoThread EXCEPT !.state = "allocated"]]
    /\ ns_refcount' = [ns_refcount EXCEPT ![th] = 1]
    /\ ns_owned' = [ns_owned EXCEPT ![th] = TRUE]
    /\ lastOp' = NoOp("allocWithZone", nil)
    /\ UNCHANGED <<ns_taken, ns_dropped, aborted>>
    /\ UNCHANGED eagl_vars

\* - initWithTarget:selector:object:
initWithTarget(th, target, object) ==
    /\ ~aborted
    /\ ns_threads[th].state = "allocated"
    /\ ns_threads' = [ns_threads EXCEPT ![th] =
                         [state |-> "initialised", target |-> target, object |-> object]]
    /\ lastOp' = NoOp("initWithTarget", nil)
    /\ UNCHANGED <<ns_refcount, ns_owned, ns_taken, ns_dropped, aborted>>
    /\ UNCHANGED eagl_vars

\* - start: the thread is created; nothing is retained.
start(th) ==
    /\ ~aborted
    /\ ns_threads[th].state = "initialised"
    /\ ns_refcount[th] > 0
    /\ ns_threads' = [ns_threads EXCEPT ![th].state = "started"]
    /\ lastOp' = NoOp("start", nil)
    /\ UNCHANGED <<ns_refcount, ns_owned, ns_taken, ns_dropped, aborted>>
    /\ UNCHANGED eagl_vars

\* + detachNewThreadSelector:toTarget:withObject: the framework allocates the
\* thread object, retains it, the target and the argument, and creates the thread.
detachNewThreadSelector(th, target, object) ==
    /\ ~aborted
    /\ ns_threads[th].state = "free"
    /\ LET x0 == [NSEnv EXCEPT !.rc[th] = 1]                  \* alloc_object
           x1 == ns_retain(x0, th)
           x2 == ns_retain(x1, target)
           x3 == ns_retain(x2, object)
       IN /\ ns_refcount' = x3.rc
          /\ ns_taken' = [ns_taken EXCEPT ![th] = x3.taken]
    /\ ns_threads' = [ns_threads EXCEPT ![th] =
                         [state |-> "started", target |-> target, object |-> object]]
    /\ lastOp' = NoOp("detachNewThreadSelector", nil)
    /\ UNCHANGED <<ns_owned, ns_dropped, aborted>>
    /\ UNCHANGED eagl_vars

\* _ns_thread_invocation: the body of the new thread.  It sends the selector
\* to the target, then releases the argument, the target and the thread object.
\* A thread object that was deallocated before the thread ran is a panic.
ns_thread_invocation(th) ==
    /\ ~aborted
    /\ ns_threads[th].state = "started"
    /\ LET host == ns_threads[th]
           x1 == ns_release(NSEnv, host.object)
           x2 == ns_release(x1, host.target)
           x3 == ns_release(x2, th)
       IN IF ns_refcount[th] = 0
          THEN /\ aborted' = TRUE
               /\ UNCHANGED <<ns_refcount, ns_dropped>>
          ELSE /\ aborted' = x3.abort
               /\ ns_refcount' = x3.rc
               /\ ns_dropped' = [ns_dropped EXCEPT ![th] = x3.dropped]
    /\ ns_threads' = [ns_threads EXCEPT ![th].state = "finished"]
    /\ lastOp' = NoOp("_ns_thread_invocation", nil)
    /\ UNCHANGED <<ns_owned, ns_taken>>
    /\ UNCHANGED eagl_vars

\* The guest gives up its own reference to a thread object.
ns_guest_release(th) ==
    /\ ~aborted
    /\ ns_owned[th]
    /\ ns_threads[th].state # "allocated"
    /\ LET x == ns_release(NSEnv, th)
       IN /\ ns_refcount' = x.rc
          /\ aborted' = x.abort
    /\ ns_owned' = [ns_owned EXCEPT ![th] = FALSE]
    /\ lastOp' = NoOp("release", nil)
    /\ UNCHANGED <<ns_threads, ns_taken, ns_dropped>>
    /\ UNCHANGED eagl_vars

Init ==
    /\ alive = [c \in Ctxs |-> "free"]
    /\ guest_owns = [c \in Ctxs |-> FALSE]
    /\ refcount = [o \in Ctxs \cup Surfs |-> IF o \in Surfs THEN 1 ELSE 0]
    /\ gles_ctx = [c \in Ctxs |-> None]
    /\ renderbuffer_drawable_bindings = [c \in Ctxs |-> {}]
    /\ current_ctxs = [t \in Threads |-> nil]
    /\ current_ctx_thread = None
    /\ app_gl_ctx_no_longer_current = FALSE
    /\ native_current = Internal
    /\ gl = [n \in NativeCtxs |-> GLInit]
    /\ fullscreen_layer = nil
    /\ layer_pixels = [s \in Surfs |-> NoPixels]
    /\ window_size = <<320, 480>>
    /\ lastOp = NoOp("init", nil)
    /\ last_bind = [c \in Ctxs |-> [n \in Names |-> nil]]
    /\ aborted = FALSE
    /\ InitThreads

alloc(this) ==
    /\ ~aborted
    /\ alive[this] = "free"
    /\ Commit(alloc_body(Env(nil), this), "alloc", this, nil)

initWithAPI(this, api) ==
    /\ ~aborted
    /\ alive[this] = "live"
    /\ gles_ctx[this] = None
    /\ Commit(initWithAPI_body(Env(nil), this, api), "initWithAPI", this, api)

setCurrentContext(t, context) ==
    /\ ~aborted
    /\ context # nil => alive[context] = "live"
    /\ Commit(setCurrentContext_body(Env(t), context), "setCurrentContext", nil, context)

renderbufferStorage(t, this, drawable) ==
    /\ ~aborted
    /\ alive[this] = "live"
    /\ Commit(renderbufferStorage_body(Env(t), this, drawable, window_size),
              "renderbufferStorage", this, drawable)

presentRenderbuffer(t, this, cursor) ==
    /\ ~aborted
    /\ alive[this] = "live"
    /\ Commit(presentRenderbuffer_body(Env(t), this, fullscreen_layer, cursor),
              "presentRenderbuffer", this, cursor)

\* The guest gives up the reference +alloc gave it.
guest_release(this) ==
    /\ ~aborted
    /\ guest_owns[this]
    /\ Commit(release([Env(nil) EXCEPT !.guest_owns[this] = FALSE], this),
              "release", this, nil)

\* dealloc sent again to a context that was already torn down.
dealloc_again(this) ==
    /\ ~aborted
    /\ alive[this] = "dead"
    /\ Commit(dealloc(Env(nil), this), "dealloc", this, nil)

guest_gl(t, c) ==
    /\ ~aborted
    /\ current_ctxs[t] # nil
    /\ LET e == guest_gl_body(Env(t), c)
       IN /\ Dirty(e.gl[e.native]) <= MaxDirty
          /\ Commit([e EXCEPT !.log = <<>>], "gl", nil, nil)

\* window: the emulator makes its own context current (e.g. to composite).
make_internal_gl_ctx_current ==
    /\ ~aborted
    /\ native_current' = Internal
    /\ app_gl_ctx_no_longer_current' = TRUE
    /\ lastOp' = NoOp("make_internal_gl_ctx_current", nil)
    /\ UNCHANGED <<alive, guest_owns, refcount, gles_ctx, renderbuffer_drawable_bindings,
                   current_ctxs, current_ctx_thread, gl, fullscreen_layer, layer_pixels,
                   window_size, last_bind, aborted>>
    /\ UNCHANGED ns_vars

\* core animation: the layer hierarchy changes which layer covers the screen.
set_fullscreen(layer) ==
    /\ ~aborted
    /\ fullscreen_layer # layer
    /\ fullscreen_layer' = layer
    /\ lastOp' = NoOp("set_fullscreen", nil)
    /\ UNCHANGED <<alive, guest_owns, refcount, gles_ctx, renderbuffer_drawable_bindings,
                   current_ctxs, current_ctx_thread, app_gl_ctx_no_longer_current,
                   native_current, gl, layer_pixels, window_size, last_bind, aborted>>
    /\ UNCHANGED ns_vars

\* window: the size the window reports changes (rotation, scale hack).
set_window_size(size) ==
    /\ ~aborted
    /\ window_size # size
    /\ window_size' = size
    /\ lastOp' = NoOp("set_window_size", nil)
    /\ UNCHANGED <<alive, guest_owns, refcount, gles_ctx, renderbuffer_drawable_bindings,
                   current_ctxs, current_ctx_thread, app_gl_ctx_no_longer_current,
                   native_current, gl, fullscreen_layer, layer_pixels, last_bind,
                   aborted>>
    /\ UNCHANGED ns_vars

WindowSizes == {<<320, 480>>, <<480, 320>>}

APIs == {kEAGLRenderingAPIOpenGLES1, kEAGLRenderingAPIOpenGLES2}

----------------------------------------------------------------------------------------------------------------------------------------------
(* Spec: the registry.  Two guest threads and two contexts select, present   *)
(* and release while the window takes the native context for itself.         *)

Next ==
    \/ \E c \in Ctxs : alloc(c)
    \/ \E c \in Ctxs, api \in APIs : initWithAPI(c, api)
    \/ \E t \in Threads, c \in Ctxs \cup {nil} : setCurrentContext(t, c)
    \/ \E t \in Threads, c \in Ctxs : renderbufferStorage(t, c, "A")
    \/ \E t \in Threads, c \in Ctxs : presentRenderbuffer(t, c, FALSE)
    \/ \E c \in Ctxs : guest_release(c)
    \/ make_internal_gl_ctx_current

Spec == Init /\ [][Next]_vars

----------------------------------------------------------------------------
(* SpecBind: the binding table.  One guest thread binds two layers to the    *)
(* renderbuffers of a context, presents on every path and tears it down.     *)

NextBind ==
    \/ alloc("c1")
    \/ initWithAPI("c1", kEAGLRenderingAPIOpenGLES1)
    \/ \E c \in {"c1", nil} : setCurrentContext("t1", c)
    \/ \E d \in Surfs \cup {nil} : renderbufferStorage("t1", "c1", d)
    \/ presentRenderbuffer("t1", "c1", FALSE)
    \/ guest_release("c1")
    \/ dealloc_again("c1")
    \/ \E c \in BindRenderbufferCalls : guest_gl("t1", c)
    \/ make_internal_gl_ctx_current
    \/ \E s \in Surfs \cup {nil} : set_fullscreen(s)

SpecBind == Init /\ [][NextBind]_vars

----------------------------------------------------------------------------
(* SpecGL: the driver state.  Context c1 is current on t1, its renderbuffer  *)
(* 1 is bound to layer A and has been presented once through the slow path; *)
(* the guest moves the GL state around and presents.                         *)

InitGL ==
    /\ alive = [c \in Ctxs |-> IF c = "c1" THEN "live" ELSE "free"]
    /\ guest_owns = [c \in Ctxs |-> c = "c1"]
    /\ refcount = [o \in Ctxs \cup Surfs |->
                      IF o = "c1" \/ o = "A" THEN 2 ELSE IF o \in Surfs THEN 1 ELSE 0]
    /\ gles_ctx = [c \in Ctxs |-> IF c = "c1" THEN "c1" ELSE None]
    /\ renderbuffer_drawable_bindings =
           [c \in Ctxs |-> IF c = "c1" THEN {<<1, "A">>} ELSE {}]
    /\ current_ctxs = [t \in Threads |-> IF t = "t1" THEN "c1" ELSE nil]
    /\ current_ctx_thread = "t1"
    /\ app_gl_ctx_no_longer_current = FALSE
    /\ native_current = "c1"
    /\ gl = [n \in NativeCtxs |->
                IF n = "c1"
                THEN [GLInit EXCEPT !.rb = 1, !.rbsize[1] = <<320, 480>>]
                ELSE GLInit]
    /\ fullscreen_layer = nil
    /\ layer_pixels = [s \in Surfs |->
                          IF s = "A" THEN [w |-> 320, h |-> 480, len |-> 320 * 480 * 4]
                          ELSE NoPixels]
    /\ window_size = <<320, 480>>
    /\ lastOp = NoOp("init", nil)
    /\ last_bind = [c \in Ctxs |-> [n \in Names |->
                        IF c = "c1" /\ n = 1 THEN "A" ELSE nil]]
    /\ aborted = FALSE
    /\ InitThreads

NextGL ==
    \/ \E cursor \in BOOLEAN : presentRenderbuffer("t1", "c1", cursor)
    \/ \E c \in GuestCalls : guest_gl("t1", c)
    \/ \E s \in Surfs \cup {nil} : set_fullscreen(s)

SpecGL == InitGL /\ [][NextGL]_vars

----------------------------------------------------------------------------
(* SpecShare: shared layers.  One guest thread binds layers to the           *)
(* renderbuffers of two contexts, presents, and lets the contexts go.        *)

NextShare ==
    \/ \E c \in Ctxs : alloc(c)
    \/ \E c \in Ctxs : initWithAPI(c, kEAGLRenderingAPIOpenGLES1)
    \/ \E c \in Ctxs : setCurrentContext("t1", c)
    \/ \E d \in Surfs : renderbufferStorage("t1", "c1", d)
    \/ renderbufferStorage("t1", "c2", "A")
    \/ \E c \in Ctxs : presentRenderbuffer("t1", c, FALSE)
    \/ \E c \in Ctxs : guest_release(c)
    \/ \E c \in BindRenderbufferCalls : guest_gl("t1", c)

SpecShare == Init /\ [][NextShare]_vars

----------------------------------------------------------------------------
(* SpecRead: the read-back.  From the state of InitGL the guest resizes its  *)
(* renderbuffer, the window changes size, and the layer is presented.        *)

NextRead ==
    \/ presentRenderbuffer("t1", "c1", FALSE)
    \/ renderbufferStorage("t1", "c1", "A")
    \/ \E c \in RenderbufferStorageCalls \cup BindRenderbufferCalls : guest_gl("t1", c)
    \/ \E size \in WindowSizes : set_window_size(size)

SpecRead == InitGL /\ [][NextRead]_vars

----------------------------------------------------------------------------
(* SpecThread: NSThread.  The guest launches threads both ways, with the     *)
(* argument an object, the target itself or nil, and the threads run.        *)

NextThread ==
    \/ \E th \in NSThreads : allocWithZone(th)
    \/ \E th \in NSThreads, object \in Operands \cup {nil} : initWithTarget(th, "T", object)
    \/ \E th \in NSThreads : start(th)
    \/ \E th \in NSThreads, object \in Operands \cup {nil} :
           detachNewThreadSelector(th, "T", object)
    \/ \E th \in NSThreads : ns_thread_invocation(th)
    \/ \E th \in NSThreads : ns_guest_release(th)

SpecThread == Init /\ [][NextThread]_vars

----------------------------------------------------------------------------
(* Properties *)

Present == lastOp.op = "presentRenderbuffer"

Bind == lastOp.op = "renderbufferStorage"

Returned == lastOp.result \in {"true", "false"}

\* C1: every native GPU call that renderbufferStorage:fromDrawable: or
\* presentRenderbuffer: issues on thread T is issued while the context that is
\* really current is the native context of the EAGLContext that is logically
\* current on T.
C1_GpuCallsOnLogicalContext ==
    (Present \/ Bind) =>
        \A n \in lastOp.gpuOn :
            /\ current_ctxs[lastOp.thread] # nil
            /\ n = gles_ctx[current_ctxs[lastOp.thread]]

\* The slots of the snapshot other than the matrix mode and the matrix stacks.
NonMatrixSlots(g) ==
    [arrays |-> g.arrays, caps |-> g.caps, color |-> g.color,
     viewport |-> g.viewport, clear |-> g.clear, bsrc |-> g.bsrc, bdst |-> g.bdst,
     abuf |-> g.abuf, vap |-> g.vap, tcap |-> g.tcap, tex |-> g.tex, fb |-> g.fb]

\* C2: whatever the guest's GL state and whichever path presentRenderbuffer:
\* takes, when it returns every non-matrix slot of the snapshot (client-array
\* enables, capabilities, color, viewport, clear color, blend factors, array
\* buffer, vertex and texcoord array pointers, 2D texture, framebuffer) has the
\* value it had just before the call.
C2_NonMatrixStateRestored ==
    [][(lastOp'.op = "presentRenderbuffer" /\ lastOp'.result \in {"true", "false"})
        => \A n \in NativeCtxs : NonMatrixSlots(gl'[n]) = NonMatrixSlots(gl[n])]_vars

\* A presentation that drew the quad and the cursor over a guest state that is
\* not the driver's default one.
C2_Witness ==
    /\ Present /\ lastOp.path = "fast" /\ lastOp.result = "true" /\ lastOp.arg = TRUE
    /\ gl["c1"].bsrc # GLInit.bsrc
    /\ gl["c1"].arrays # {}

\* C3: after a presentation that draws the quad returns, the matrix mode is
\* the one in force before it, and each of the three matrix stacks has the
\* depth and the top matrix it had before.
C3_MatrixStateRestored ==
    [][(lastOp'.op = "presentRenderbuffer" /\ lastOp'.path = "fast"
           /\ lastOp'.result = "true")
        => \A n \in NativeCtxs : /\ gl'[n].mode = gl[n].mode
                                 /\ gl'[n].stacks = gl[n].stacks]_vars

\* The drawable bound to the renderbuffer the last method found bound in the
\* driver (nil when it issued no GPU call).
BoundDrawable ==
    IF lastOp.gpuOn = {} THEN nil
    ELSE Lookup(renderbuffer_drawable_bindings[lastOp.this], gl[native_current].rb)

Count(seq, x) == Cardinality({i \in 1..Len(seq) : seq[i] = x})

Entries(table, drawable) == Cardinality({b \in table : b[2] = drawable})

\* C4: a renderbufferStorage:fromDrawable: that finds renderbuffer T bound to A and
\* binds it to B releases A exactly once, retains B exactly once and leaves
\* lookup(T) = B; no table ever holds two drawables for one renderbuffer name.
C4_RebindReleasesOldRetainsNew ==
    /\ \A c \in Ctxs : \A b1, b2 \in renderbuffer_drawable_bindings[c] :
           b1[1] = b2[1] => b1 = b2
    /\ (Bind /\ lastOp.result = "true") =>
           /\ lastOp.retained = <<lastOp.arg>>
           /\ lastOp.released = IF lastOp.old = nil THEN <<>> ELSE <<lastOp.old>>
           /\ Lookup(renderbuffer_drawable_bindings[lastOp.this], lastOp.key)
                  = lastOp.arg

\* Renderbuffer 1 was bound to A and has just been bound to B.
C4_Witness ==
    /\ Bind /\ lastOp.result = "true"
    /\ lastOp.key = 1 /\ lastOp.old = "A" /\ lastOp.arg = "B"

\* C5: tearing a context down releases each drawable once per entry of the
\* binding table that still names it, and leaves the table empty.
C5_TeardownReleasesBindings ==
    [][\A c \in Ctxs :
         (alive[c] = "live" /\ alive'[c] = "dead") =>
             /\ renderbuffer_drawable_bindings'[c] = {}
             /\ \A d \in Surfs :
                  /\ Count(lastOp'.released, d)
                         = Entries(renderbuffer_drawable_bindings[c], d)
                  /\ refcount'[d] = refcount[d]
                         - Entries(renderbuffer_drawable_bindings[c], d)]_vars

\* A context was torn down while it held two bindings, after one of its
\* renderbuffers had been rebound.
C5_Witness ==
    /\ lastOp.op = "release" /\ alive["c1"] = "dead"
    /\ Count(lastOp.released, "A") = 1 /\ Count(lastOp.released, "B") = 1
    /\ refcount["A"] = 1 /\ refcount["B"] = 1

ReadbackCalls == {"ReadPixels", "get_pixels_vec_for_presenting", "present_pixels"}

\* C7: presenting a renderbuffer bound to the fullscreen layer issues no
\* read-pixels call and neither requests nor fills a host-side pixel buffer.
C7_FastPathNoReadback ==
    (Present /\ BoundDrawable # nil /\ BoundDrawable = fullscreen_layer) =>
        /\ SeqRange(lastOp.log) \cap ReadbackCalls = {}
        /\ lastOp.path = "fast"

C7_Witness ==
    /\ Present /\ lastOp.result = "true"
    /\ BoundDrawable = "A" /\ fullscreen_layer = "A"
    /\ lastOp.swapFb # <<>>

\* C8: presenting a renderbuffer bound to S while another layer F is fullscreen
\* returns true and issues no drawing, read-back, compositing or swap call: the
\* only calls are the context synchronisation and the binding query.
C8_SkipDoesNothing ==
    (Present /\ BoundDrawable # nil /\ fullscreen_layer # nil
             /\ fullscreen_layer # BoundDrawable) =>
        /\ lastOp.result = "true"
        /\ SeqRange(lastOp.log)
               \subseteq {"make_current", "GetIntegerv:RENDERBUFFER_BINDING_OES"}
        /\ lastOp.swapFb = <<>>

C8_Witness ==
    /\ Present /\ lastOp.result = "true"
    /\ BoundDrawable = "A" /\ fullscreen_layer = "B"

\* C9: a presentRenderbuffer: that returns returns false exactly when the bound
\* renderbuffer name has no entry in the context's table; on the fast, skipped
\* and slow paths it returns true.
C9_FalseIffUnbound ==
    (Present /\ Returned) =>
        /\ (lastOp.result = "false") <=> (BoundDrawable = nil)
        /\ lastOp.path \in {"fast", "skip", "slow"} => lastOp.result = "true"
        /\ lastOp.path \in {"unbound", "fast", "skip", "slow"}

\* The table is not empty, but the renderbuffer that is bound has no entry.
C9_Witness ==
    /\ Present /\ lastOp.result = "false"
    /\ renderbuffer_drawable_bindings[lastOp.this] # {}

C11_SlowPathReadsPresentsSwapsOnce ==
    (Present /\ BoundDrawable # nil /\ fullscreen_layer = nil) =>
        /\ Count(lastOp.log, "ReadPixels") = 1
        /\ Count(lastOp.log, "present_pixels") = 1
        /\ layer_pixels[BoundDrawable].w = gl[native_current].rbsize[lastOp.key][1]
        /\ layer_pixels[BoundDrawable].h = gl[native_current].rbsize[lastOp.key][2]
        /\ Len(lastOp.swapFb) = 1

\* C12: a presentRenderbuffer: on the fast path (renderbuffer bound to the
\* fullscreen layer) swaps the window exactly once.
C12_FastPathSwapsOnce ==
    (Present /\ BoundDrawable # nil /\ BoundDrawable = fullscreen_layer) =>
        /\ Len(lastOp.swapFb) = 1
        /\ Count(lastOp.log, "swap_window") = 1

\* A fast-path present of renderbuffer 1 that swapped with framebuffer 0 bound.
C12_Witness ==
    /\ Present /\ lastOp.path = "fast" /\ lastOp.key = 1
    /\ lastOp.swapFb = <<0>>

SetCurrent == lastOp.op = "setCurrentContext"

\* C13: setCurrentContext: with an initialised context C on thread T returns
\* true, and afterwards C is the current context of T, C's native context is
\* the one really current, and the owner marker is T, whatever was current on T
\* before (C itself included).
C13_SetCurrentMakesCurrent ==
    (SetCurrent /\ lastOp.arg \in Ctxs /\ gles_ctx[lastOp.arg] # None) =>
        /\ lastOp.result = "true"
        /\ current_ctxs[lastOp.thread] = lastOp.arg
        /\ native_current = gles_ctx[lastOp.arg]
        /\ current_ctx_thread = lastOp.thread

\* c1 was selected on t1 while it was already current there, after the window
\* had taken the native context.
C13_Witness ==
    /\ SetCurrent /\ lastOp.arg = "c1" /\ lastOp.thread = "t1"
    /\ lastOp.released = <<"c1">> /\ lastOp.result = "true"
    /\ native_current = "c1"

\* C14, as claimed: setCurrentContext: with nil issues no make-current, leaves
\* the really current context as it was, clears the entry of the calling thread
\* and leaves the entries of the other threads alone.
C14_ClearLeavesNativeContext ==
    [][(lastOp'.op = "setCurrentContext" /\ lastOp'.arg = nil) =>
         /\ lastOp'.made = <<>>
         /\ native_current' = native_current
         /\ current_ctxs'[lastOp'.thread] = nil
         /\ \A t \in Threads \ {lastOp'.thread} : current_ctxs'[t] = current_ctxs[t]]_vars

\* C14, amended: as above, except that when the call drops the last reference
\* to the context that was current on the thread, that context is torn down,
\* and if its native context was the one really current, no context is
\* afterwards.
C14_ClearLeavesNativeContextUnlessTornDown ==
    [][(lastOp'.op = "setCurrentContext" /\ lastOp'.arg = nil) =>
         LET old_ctx == current_ctxs[lastOp'.thread]
             torn_down == old_ctx # nil /\ alive'[old_ctx] = "dead"
         IN /\ lastOp'.made = <<>>
            /\ torn_down <=> (old_ctx # nil /\ refcount[old_ctx] = 1)
            /\ native_current' = IF torn_down /\ native_current = gles_ctx[old_ctx]
                                 THEN None ELSE native_current
            /\ current_ctxs'[lastOp'.thread] = nil
            /\ \A t \in Threads \ {lastOp'.thread} :
                   current_ctxs'[t] = current_ctxs[t]]_vars

\* The guest had already released c1; clearing it on t1 tore it down while c2
\* stayed current on t2, and no context is really current any more.
C14_Witness ==
    /\ SetCurrent /\ lastOp.arg = nil /\ lastOp.thread = "t1"
    /\ lastOp.released = <<"c1">> /\ alive["c1"] = "dead"
    /\ current_ctxs["t2"] = "c2" /\ native_current = None

\* C15: a context is the current context of at most one thread.
C15_CurrentOnAtMostOneThread ==
    \A c \in Ctxs : Cardinality({t \in Threads : current_ctxs[t] = c}) <= 1

Create == lastOp.op = "initWithAPI"

UsesGpu(op) == op \in {"renderbufferStorage", "presentRenderbuffer"}

\* C16: initWithAPI: changes no thread's current context, leaves the new
\* context current on no thread and leaves the owner marker unknown; while the
\* marker is unknown, the next bind or present on a thread that has a current
\* context makes that context really current again before anything else.
C16_CreateLeavesRegistryAndForcesResync ==
    [][/\ (lastOp'.op = "initWithAPI" /\ ~aborted') =>
              /\ current_ctxs' = current_ctxs
              /\ \A t \in Threads : current_ctxs'[t] # lastOp'.this
              /\ current_ctx_thread' = None
       /\ (current_ctx_thread = None /\ UsesGpu(lastOp'.op)
               /\ current_ctxs[lastOp'.thread] # nil) =>
              /\ lastOp'.made # <<>>
              /\ lastOp'.made[1] = gles_ctx[current_ctxs[lastOp'.thread]]
              /\ lastOp'.log[1] = "make_current"]_vars

\* c2 was created while c1 was current on t1: c2's native context is really
\* current, c1 is still the current context of t1, and the marker is unknown.
C16_Witness ==
    /\ Create /\ lastOp.this = "c2" /\ ~aborted
    /\ current_ctxs["t1"] = "c1" /\ native_current = "c2"
    /\ current_ctx_thread = None

\* C17: a bind or present on a thread with no current context aborts: it
\* returns neither true nor false, changes no binding table and issues no GPU
\* call, make-current or swap.
C17_NoContextFailsLoudly ==
    [][(UsesGpu(lastOp'.op) /\ current_ctxs[lastOp'.thread] = nil) =>
         /\ aborted'
         /\ lastOp'.result \notin {"true", "false"}
         /\ UNCHANGED <<renderbuffer_drawable_bindings, refcount, gl, native_current>>
         /\ lastOp'.gpuOn = {} /\ lastOp'.log = <<>>
         /\ lastOp'.swapFb = <<>>]_vars

\* presentRenderbuffer: was sent to a context that has a binding from a thread
\* on which nothing is current.
C17_Witness ==
    /\ Present /\ aborted
    /\ current_ctxs[lastOp.thread] = nil
    /\ renderbuffer_drawable_bindings[lastOp.this] # {}

\* C18: renderbufferStorage:fromDrawable: with a nil drawable returns false and
\* leaves the binding table and the reference counts as they were.
C18_BindNilReturnsFalse ==
    [][(lastOp'.op = "renderbufferStorage" /\ lastOp'.arg = nil) =>
         /\ lastOp'.result = "false"
         /\ ~aborted'
         /\ UNCHANGED <<renderbuffer_drawable_bindings, refcount>>]_vars

\* C19: initWithAPI: with an API other than OpenGL ES 1 aborts before a native
\* context is created or made current; the registry and the owner marker are
\* as they were.
C19_UnsupportedApiAborts ==
    [][(lastOp'.op = "initWithAPI" /\ lastOp'.arg # kEAGLRenderingAPIOpenGLES1) =>
         /\ aborted'
         /\ lastOp'.made = <<>> /\ lastOp'.log = <<>>
         /\ UNCHANGED <<native_current, gles_ctx, current_ctxs, current_ctx_thread>>]_vars

\* initWithAPI: with OpenGL ES 2 aborted while c1 was current on t1.
C19_Witness ==
    /\ Create /\ lastOp.arg = kEAGLRenderingAPIOpenGLES2 /\ aborted
    /\ current_ctx_thread = "t1" /\ native_current = "c1"

\* The path presentRenderbuffer: has to take for drawable d, given the layer
\* that is fullscreen now.
PathFor(d) ==
    IF d = nil THEN "unbound"
    ELSE IF d = fullscreen_layer THEN "fast"
    ELSE IF fullscreen_layer # nil THEN "skip"
    ELSE "slow"

\* C20: a presentRenderbuffer: resolves the bound renderbuffer name to the
\* drawable of the most recent renderbufferStorage:fromDrawable: of that name
\* on the context, and takes the fast, skip or slow path according to the
\* layer that is fullscreen at the time of the call.
C20_PresentResolvesLatestBind ==
    (Present /\ lastOp.gpuOn # {}) =>
        LET latest == last_bind[lastOp.this][gl[native_current].rb]
        IN /\ lastOp.old = latest
           /\ lastOp.path = PathFor(latest)
           /\ lastOp.path = "slow" => layer_pixels[latest] # NoPixels
           /\ lastOp.path = "fast" => lastOp.swapFb # <<>>
           /\ lastOp.path \in {"skip", "unbound"} => lastOp.log =
                  <<"make_current", "GetIntegerv:RENDERBUFFER_BINDING_OES">>
                  \/ lastOp.log = <<"GetIntegerv:RENDERBUFFER_BINDING_OES">>

\* Renderbuffer 1 was bound to A and presented, then bound to B; B became the
\* fullscreen layer and the present went to B on the fast path.
C20_Witness ==
    /\ Present /\ lastOp.key = 1 /\ lastOp.old = "B" /\ lastOp.path = "fast"
    /\ layer_pixels["A"].len > 0
    /\ renderbuffer_drawable_bindings[lastOp.this] = {<<1, "B">>}

\* The entries of the binding tables of the live contexts that name drawable d.
LiveEntries(d) ==
    Cardinality({cb \in Ctxs \X (Names \X Surfs) :
                    /\ alive[cb[1]] = "live"
                    /\ cb[2] \in renderbuffer_drawable_bindings[cb[1]]
                    /\ cb[2][2] = d})

\* C21: for each drawable, the retains minus the releases the contexts have
\* issued (its reference count less the reference of its owner) equal the
\* number of binding-table entries of live contexts that name it.
C21_SurfaceRefsMatchBindings ==
    \A d \in Surfs : refcount[d] - 1 = LiveEntries(d)

\* Layer A is bound to both renderbuffer names of both contexts, and the last
\* bind put it where it already was.
C21_Witness ==
    /\ Bind /\ lastOp.old = "A" /\ lastOp.arg = "A"
    /\ refcount["A"] = 5 /\ LiveEntries("A") = 4

\* C22: renderbufferStorage:fromDrawable: adds or replaces an entry of a
\* context's table only when that context is the current context of the
\* calling thread.
C22_BindOnlyOnCurrentContext ==
    (Bind /\ lastOp.retained # <<>>) => current_ctxs[lastOp.thread] = lastOp.this

\* C23: whatever framebuffer the guest had bound before the present, each time
\* the engine swaps the window the framebuffer binding is the default
\* framebuffer, name 0: neither the guest's nor the temporary one.
C23_SwapSeesDefaultFramebuffer ==
    Present => \A i \in 1..Len(lastOp.swapFb) : lastOp.swapFb[i] = 0

\* A present swapped the window although the guest draws to framebuffer 1.
C23_Witness ==
    /\ Present /\ lastOp.path = "fast" /\ lastOp.result = "true"
    /\ gl["c1"].fb = 1
    /\ lastOp.swapFb = <<0>>

\* The position of the first entry of seq that is in names (0: there is none).
First(seq, names) ==
    IF \E i \in 1..Len(seq) : seq[i] \in names
    THEN CHOOSE i \in 1..Len(seq) :
             /\ seq[i] \in names
             /\ \A j \in 1..(i - 1) : seq[j] \notin names
    ELSE 0

\* The position of the last entry of seq that is in names (0: there is none).
Last(seq, names) ==
    IF \E i \in 1..Len(seq) : seq[i] \in names
    THEN CHOOSE i \in 1..Len(seq) :
             /\ seq[i] \in names
             /\ \A j \in (i + 1)..Len(seq) : seq[j] \notin names
    ELSE 0

\* What the call issued after it swapped the window.
AfterSwap == SubSeq(lastOp.log, First(lastOp.log, {"swap_window"}) + 1, Len(lastOp.log))

Swapped == Present /\ "swap_window" \in SeqRange(lastOp.log)

\* C24 as stated: the swap is the last GPU-visible action of a presentation;
\* nothing that changes GPU state (a texture bind, a framebuffer bind, any
\* other restore) is issued after it.
C24_SwapIsLastGpuAction ==
    Swapped => SeqRange(AfterSwap) \subseteq {"GetError"}

\* C24, amended: the swap comes after every restore but those of the texture
\* and the framebuffer bindings; after the swap the engine rebinds the guest's
\* texture, then the guest's framebuffer, then reads the error flag, and issues
\* nothing else.
C24_SwapThenBindingsRestored ==
    Swapped => AfterSwap = <<"BindTexture", "BindFramebufferOES", "GetError">>

\* A present with the guest's own texture and framebuffer bound, which are back
\* in place afterwards.
C24_Witness ==
    /\ Swapped /\ lastOp.result = "true"
    /\ gl["c1"].fb = 1 /\ gl["c1"].tex = 1

\* The slots of the snapshot: the query (or push) that captures each, the calls
\* that restore it, and whether the restoring call is the last of its kind.
Slots ==
    << [cap |-> {"GetIntegerv:FRAMEBUFFER_BINDING_OES"}, res |-> {"BindFramebufferOES"},
        last |-> FALSE],
       [cap |-> {"GetIntegerv:TEXTURE_BINDING_2D"}, res |-> {"BindTexture"},
        last |-> FALSE],
       [cap |-> {"GetBooleanv:VERTEX_ARRAY"},
        res |-> {"EnableClientState", "DisableClientState"}, last |-> FALSE],
       [cap |-> {"GetBooleanv:TEXTURE_2D"}, res |-> {"Enable", "Disable"},
        last |-> FALSE],
       [cap |-> {"GetIntegerv:MATRIX_MODE"}, res |-> {"MatrixMode"}, last |-> FALSE],
       [cap |-> {"PushMatrix"}, res |-> {"PopMatrix"}, last |-> FALSE],
       [cap |-> {"GetFloatv:CURRENT_COLOR"}, res |-> {"Color4f"}, last |-> FALSE],
       [cap |-> {"GetIntegerv:VIEWPORT"}, res |-> {"Viewport"}, last |-> FALSE],
       [cap |-> {"GetFloatv:COLOR_CLEAR_VALUE"}, res |-> {"ClearColor"}, last |-> FALSE],
       [cap |-> {"GetIntegerv:ARRAY_BUFFER_BINDING"}, res |-> {"BindBuffer"},
        last |-> TRUE],
       [cap |-> {"GetIntegerv:VERTEX_ARRAY_BUFFER_BINDING"}, res |-> {"VertexPointer"},
        last |-> FALSE],
       [cap |-> {"GetIntegerv:TEXTURE_COORD_ARRAY_BUFFER_BINDING"},
        res |-> {"TexCoordPointer"}, last |-> FALSE],
       [cap |-> {"GetIntegerv:BLEND_SRC"}, res |-> {"BlendFunc"}, last |-> FALSE] >>

\* Where the restores begin: after the texture of the frame is deleted.
RestoreStart == First(lastOp.log, {"DeleteTextures"})

Restores == SubSeq(lastOp.log, RestoreStart + 1, Len(lastOp.log))

CapturedAt(a) == First(lastOp.log, Slots[a].cap)

RestoredAt(a) ==
    IF Slots[a].last THEN Last(Restores, Slots[a].res) ELSE First(Restores, Slots[a].res)

\* C25: the slots of the snapshot are restored in the reverse of the order in
\* which they were captured: of two slots, the one captured first is restored
\* last.
C25_RestoredInReverseOrder ==
    (Present /\ lastOp.path = "fast" /\ RestoreStart > 0) =>
        \A a, b \in 1..Len(Slots) :
            CapturedAt(a) < CapturedAt(b) => RestoredAt(b) < RestoredAt(a)

\* C26: a presentation that draws to the display reads the GPU error flag
\* exactly once, as its last call, after the last restore; a value other than
\* NO_ERROR aborts the call, and the call never returns false.
C26_ErrorFlagReadOnceAndFatal ==
    (Present /\ lastOp.path = "fast") =>
        /\ Len(lastOp.errs) = 1
        /\ Count(lastOp.log, "GetError") = 1
        /\ Last(lastOp.log, {"GetError"}) = Len(lastOp.log)
        /\ Last(lastOp.log, {"BindFramebufferOES"}) = Len(lastOp.log) - 1
        /\ lastOp.result # "false"
        /\ lastOp.errs[1] => aborted /\ lastOp.result = "abort"
        /\ ~lastOp.errs[1] => ~aborted /\ lastOp.result = "true"

\* A presentation found the error flag set and aborted.
C26_Witness ==
    /\ Present /\ lastOp.path = "fast"
    /\ lastOp.errs = <<TRUE>>
    /\ aborted

\* Whether width * height * 4 fits the host's size type.
Fits(size) ==
    \/ size[1] = 0
    \/ size[2] = 0
    \/ /\ size[1] <= usize_MAX \div size[2]
       /\ size[1] * size[2] <= usize_MAX \div 4

\* What the driver reports for the renderbuffer bound on the current context.
DriverSize == gl[native_current].rbsize[gl[native_current].rb]

\* C27: a read-back takes the width and the height the driver reports for the
\* bound renderbuffer at that call; the frame it hands to the compositor has
\* that width and height and exactly width * height * 4 bytes, none of them
\* from an earlier frame; and where width * height * 4 does not fit the host's
\* size type the call aborts before it reads a pixel.
C27_ReadbackUsesDriverSize ==
    (Present /\ lastOp.path = "slow") =>
        IF Fits(DriverSize)
        THEN /\ ~aborted
             /\ Count(lastOp.log, "ReadPixels") = 1
             /\ layer_pixels[lastOp.old] =
                    [w |-> DriverSize[1], h |-> DriverSize[2],
                     len |-> DriverSize[1] * DriverSize[2] * 4]
        ELSE /\ aborted
             /\ lastOp.result = "abort"
             /\ "ReadPixels" \notin SeqRange(lastOp.log)
             /\ "present_pixels" \notin SeqRange(lastOp.log)

\* The layer was first presented at 320x480; the guest gave the renderbuffer a
\* new size, and the next present handed on a frame of that size.
C27_Witness ==
    /\ Present /\ lastOp.path = "slow" /\ lastOp.result = "true"
    /\ DriverSize = <<480, 320>>
    /\ layer_pixels["A"] = [w |-> 480, h |-> 320, len |-> 614400]

\* C28: presentRenderbuffer:, on every path (unbound, fast, skipped, slow),
\* leaves every context's binding table, every drawable's reference count and
\* the current context of every thread as they were before the call.
C28_PresentLeavesBookkeeping ==
    [][lastOp'.op = "presentRenderbuffer" =>
          /\ renderbuffer_drawable_bindings' = renderbuffer_drawable_bindings
          /\ \A d \in Surfs : refcount'[d] = refcount[d]
          /\ current_ctxs' = current_ctxs]_vars

\* A slow-path present of a layer that is bound under both renderbuffer names.
C28_Witness ==
    /\ Present /\ lastOp.path = "slow" /\ lastOp.result = "true"
    /\ renderbuffer_drawable_bindings["c1"] = {<<0, "A">>, <<1, "A">>}
    /\ refcount["A"] = 3

\* The references the registry holds on context c: its count less the guest's.
RegistryRefs(c) == refcount[c] - (IF guest_owns[c] THEN 1 ELSE 0)

\* C29: after any sequence of setCurrentContext: calls on any threads, the
\* retains less the releases the registry has issued on a context equal the
\* number of threads whose current context it is; and a call that replaces a
\* context that was current leaves the owner marker unknown if the new value
\* is nil, and equal to the calling thread otherwise.
C29_RegistryRefsMatchThreads ==
    [][~aborted' =>
          /\ \A c \in Ctxs :
                 RegistryRefs(c)' = Cardinality({t \in Threads : current_ctxs'[t] = c})
          /\ (lastOp'.op = "setCurrentContext" /\ current_ctxs[lastOp'.thread] # nil) =>
                 current_ctx_thread' =
                     IF lastOp'.arg = nil THEN None ELSE lastOp'.thread]_vars

\* c1 is current on both threads, the second of which had c2 current before.
C29_Witness ==
    /\ SetCurrent /\ lastOp.arg = "c1" /\ lastOp.released = <<"c2">>
    /\ \A t \in Threads : current_ctxs[t] = "c1"
    /\ RegistryRefs("c1") = 2
    /\ current_ctx_thread = lastOp.thread

\* C30: every framebuffer and texture the engine creates during a present is
\* deleted before the present returns: the call deletes as many as it creates,
\* and the objects that exist afterwards are those that existed before.
C30_TemporariesDeleted ==
    [][(lastOp'.op = "presentRenderbuffer" /\ lastOp'.result \in {"true", "false"}) =>
          /\ \A n \in NativeCtxs :
                 /\ gl'[n].fbs = gl[n].fbs
                 /\ gl'[n].texs = gl[n].texs
          /\ Count(lastOp'.log, "GenFramebuffersOES")
                 = Count(lastOp'.log, "DeleteFramebuffersOES")
          /\ Count(lastOp'.log, "GenTextures") = Count(lastOp'.log, "DeleteTextures")]_vars

\* A present that created a framebuffer and a texture and left none behind.
C30_Witness ==
    /\ Present /\ lastOp.result = "true"
    /\ "GenFramebuffersOES" \in SeqRange(lastOp.log)
    /\ "GenTextures" \in SeqRange(lastOp.log)
    /\ \A n \in NativeCtxs : gl[n].fbs = {} /\ gl[n].texs = {}

\* C31: while the guest balances its own retains and releases, the current
\* context of a thread is never a context that was torn down; a context that is
\* current on a thread is torn down only by the setCurrentContext: that
\* replaces or clears it on that thread.
C31_CurrentContextIsNotTornDown ==
    [][/\ \A t \in Threads :
              current_ctxs'[t] # nil => alive'[current_ctxs'[t]] = "live"
       /\ \A c \in Ctxs, t \in Threads :
              (alive[c] = "live" /\ alive'[c] = "dead" /\ current_ctxs[t] = c) =>
                  /\ lastOp'.op = "setCurrentContext"
                  /\ lastOp'.thread = t
                  /\ current_ctxs'[t] # c]_vars

\* The guest had released c1 while it was current; it was torn down when the
\* thread selected c2 in its place.
C31_Witness ==
    /\ SetCurrent /\ lastOp.arg = "c2" /\ lastOp.released = <<"c1">>
    /\ alive["c1"] = "dead"
    /\ current_ctxs[lastOp.thread] = "c2"

\* The objects a launch involves: the thread object, its target, its argument.
Involved(th) == {th, ns_threads[th].target, ns_threads[th].object} \ {nil}

\* C32: for every thread launched through NSThread, by
\* detachNewThreadSelector:toTarget:withObject: or by
\* initWithTarget:selector:object: and start, once its invocation has finished
\* the framework has released the target, the argument and the thread object
\* exactly as often as it retained them before the thread ran, and no object
\* the guest still owns has been deallocated.
C32_LaunchRetainsEqualReleases ==
    \A th \in NSThreads :
        ns_threads[th].state = "finished" =>
            /\ ~aborted
            /\ \A o \in Involved(th) : Count(ns_taken[th], o) = Count(ns_dropped[th], o)
            /\ \A o \in NSObjects : ns_owned[o] => ns_refcount[o] > 0

====
